---------------------------- MODULE Spec2Model ----------------------------
(***************************************************************************)
(* Model of the brainfuck engine (bf.cpp) and of the part of the REPL      *)
(* shell that drives it (shell.cpp), as found in src/shell.cpp.            *)
(*                                                                         *)
(* Numbers of type uint64_t are kept as integers: a value v < 2^63 is the  *)
(* integer v, a value v >= 2^63 is the integer v - 2^64 (so it is          *)
(* negative).  Addition and subtraction modulo 2^64 are then the plain     *)
(* integer operations as long as magnitudes stay far below 2^63, which     *)
(* the bounds guarantee; only comparisons need care (UGt, UGe).            *)
(***************************************************************************)
EXTENDS Integers, Sequences, FiniteSets, TLC

(***************************************************************************)
(* Bounds of the model.                                                    *)
(***************************************************************************)
MaxSize  == 3   \* largest tape size passed to bf_malloc
MaxCalls == 2   \* bf_execute calls in one session
MaxOut   == 2   \* bytes kept of the output sink
MaxDelta == 8   \* largest |offset| passed to bf_ptroffset (> 2 * MaxSize)
MaxVLen  == 5   \* longest bracket string handed to verify on its own
MaxOps   == 3   \* goto_stack.push (and pop) calls followed in one bf_execute
MaxPtr   == 5   \* largest value of ptr followed once it has left the tape
MaxWild  == 1   \* undefined top() values that fall inside the stream, per call

(***************************************************************************)
(* The instruction set (src/shell.cpp:148-155).                            *)
(***************************************************************************)
PTR_INC == ">"
PTR_DEC == "<"
MEM_INC == "+"
MEM_DEC == "-"
PUT_CHR == "."
GET_CHR == ","
JMP_FWD == "["
JMP_BCK == "]"

Commands == {PTR_INC, PTR_DEC, MEM_INC, MEM_DEC, PUT_CHR, GET_CHR, JMP_FWD, JMP_BCK}
\* "x" stands for any other printable character, " " for white space, which
\* the formatted extraction  code >> cmd  skips.
OtherChar == "x"
Space     == " "

\* Value of the null pointer held by mem before bf_malloc and after a failed one.
NULL == << >>

\* getchar() at end of input.
EOF == -1

\* (uint8_t) x
Byte(x) == x % 256

\* unsigned 64-bit comparisons on the encoding described above
UGt(a, b) == IF (a < 0) = (b < 0) THEN a > b ELSE a < 0
UGe(a, b) == a = b \/ UGt(a, b)

(***************************************************************************)
(* The program texts handed to bf_execute.  A program text is a tuple of   *)
(* one-character strings.                                                  *)
(***************************************************************************)
ProgRight    == << ">" >>
ProgLeft     == << "<" >>
ProgInc      == << "+" >>
ProgDec      == << "-" >>
ProgInert    == << "x", " ", "x" >>
ProgEmpty    == << >>
ProgEcho     == << ",", "." >>
ProgClear    == << "[", "-", "]" >>
ProgLoop     == << "+", "+", "[", "-", "]", ">" >>
ProgMove     == << "+", ">", "+", "+", "[", "<", "+", ">", "-", "]" >>
ProgNested   == << "+", "[", "[", "-", "]", "]" >>
ProgSkip     == << "[", "[", "x", "]", "+", "]", " ", "." >>
ProgForever  == << "+", "[", "]" >>
ProgClose    == << "]" >>
ProgOpen     == << "+", "[" >>
ProgCloseInc == << "]", "+", "." >>
ProgCloseOpen    == << "]", "[" >>
ProgDecCloseOpen == << "-", "]", "[" >>
ProgLateOpen     == << "+", "[", "-", "]", "]", "[" >>

\* a cell is a uint8_t and has this many values
CellRange == 256

\* ">+[<+>+]<+" increments the cell it starts on once for every value a
\* cell has: its right neighbour, which starts at 0, counts 1, 2, ... 255, 0
\* and the cell is incremented on each count; ">+[<->+]<-" decrements so.
ProgIncRound == << ">", "+", "[", "<", "+", ">", "+", "]", "<", "+" >>
ProgDecRound == << ">", "+", "[", "<", "-", ">", "+", "]", "<", "-" >>
ProgIncDec   == << "+", "-" >>
ProgDecInc   == << "-", "+" >>
ProgPut      == << "." >>
ProgReadTwice == << ",", "+", ",", "." >>

\* "++>+++++[<+>-]" and its loop, bare and with inert characters and
\* white space put in
ProgScenarioA == << "+", "+", ">", "+", "+", "+", "+", "+",
                    "[", "<", "+", ">", "-", "]" >>
ProgAddLeft   == << "[", "<", "+", ">", "-", "]" >>
ProgScenarioAPadded == << "x", "+", "+", " ", ">", "+", "+", "x", "+", "+", "+",
                          "[", "x", "<", "+", " ", ">", "-", "x", "]", "x" >>
ProgAddLeftPadded   == << " ", "[", "x", " ", "<", "+", "x", ">", "-", "]",
                          " ", "x" >>

WellNested == { ProgRight, ProgLeft, ProgInc, ProgDec, ProgInert, ProgEmpty,
                ProgEcho, ProgClear, ProgLoop, ProgMove, ProgNested, ProgSkip,
                ProgForever }
Unbalanced == { ProgClose, ProgOpen, ProgCloseInc }
IllNested  == { ProgCloseOpen, ProgDecCloseOpen, ProgLateOpen }

Programs == WellNested \cup Unbalanced \cup IllNested

VARIABLES
    mem,            \* uint8_t* mem: NULL or the cells, a function on 0..size-1
    memsize,        \* uint64_t memsize
    ptr,            \* uint64_t ptr
    goto_stack,     \* std::stack<uint64_t> goto_stack, top last
    stack_corrupt,  \* the container was used empty: its invariants are gone
    code,           \* the stream bf_execute was called with
    pos,            \* its get position (tellg)
    stream_fail,    \* its failbit
    pc,             \* "idle", "exec" (inside bf_execute), "crashed", "exited"
    result,         \* value returned by the last bf_execute that returned
    out,            \* bytes written by putchar in the running/last bf_execute
    calls,          \* bf_execute calls so far
    last_op,        \* the operation that produced this state
    entry,          \* the engine state when the operation last_op began
    dispatched,     \* instructions dispatched by the running/last bf_execute
    pushes,         \* goto_stack.push calls of the running/last bf_execute
    pops,           \* goto_stack.pop calls of the running/last bf_execute
    ff_eof,         \* jump_ff returned -1 in the running/last bf_execute
    wild_tops,      \* undefined top() values followed into the stream, this call
    q_offset,       \* argument of the last bf_ptroffset call from outside
    q_result,       \* and its result
    stdin,          \* bytes standard input still holds for getchar
    newlines,       \* shell.cpp: static int newlines
    shown,          \* what the last shell command printed
    ref             \* the reference interpreter run beside bf_execute

vars == << mem, memsize, ptr, goto_stack, stack_corrupt, code, pos, stream_fail,
           pc, result, out, calls, last_op, entry, dispatched, pushes, pops,
           ff_eof, wild_tops, q_offset, q_result, stdin, newlines, shown,
           ref >>

engine  == << mem, memsize, ptr, goto_stack, stack_corrupt >>
stream  == << code, pos, stream_fail >>
callLog == << entry, dispatched, pushes, pops, ff_eof, wild_tops >>
query   == << q_offset, q_result >>
shellv  == << newlines, shown >>

Snapshot == [ mem |-> mem, memsize |-> memsize, ptr |-> ptr,
              goto_stack |-> goto_stack, stack_corrupt |-> stack_corrupt,
              stdin |-> stdin ]


(***************************************************************************)
(* The formatted extraction  code >> cmd : skip white space, then read one *)
(* character.  Extract(c, p) is the index (1-based, which is also the get  *)
(* position after the read) of the character read from get position p, or  *)
(* 0 when the end of the stream is met first and the extraction fails.     *)
(***************************************************************************)
RECURSIVE SkipWs(_, _)
SkipWs(c, i) ==
    IF i > Len(c) THEN 0
    ELSE IF c[i] = Space THEN SkipWs(c, i + 1)
    ELSE i

Extract(c, p) == SkipWs(c, p + 1)

(***************************************************************************)
(* int verify(std::istream& code)                                          *)
(***************************************************************************)
RECURSIVE verify_scan(_, _, _)
verify_scan(c, p, brackets_open) ==
    LET i == Extract(c, p) IN
    IF i = 0 THEN brackets_open
    ELSE verify_scan(c, i,
             CASE c[i] = JMP_FWD -> brackets_open + 1
               [] c[i] = JMP_BCK -> brackets_open - 1
               [] OTHER          -> brackets_open)

\* (a variant that insists on nesting: the counter may never go negative)
RECURSIVE verify_nesting_scan(_, _, _)
verify_nesting_scan(c, p, brackets_open) ==
    LET i == Extract(c, p) IN
    IF brackets_open < 0 THEN brackets_open
    ELSE IF i = 0 THEN brackets_open
    ELSE verify_nesting_scan(c, i,
             CASE c[i] = JMP_FWD -> brackets_open + 1
               [] c[i] = JMP_BCK -> brackets_open - 1
               [] OTHER          -> brackets_open)

verify_nesting(c) == IF verify_nesting_scan(c, 0, 0) = 0 THEN 1 ELSE 0

verify(c) == IF verify_scan(c, 0, 0) = 0 THEN 1 ELSE 0

(***************************************************************************)
(* int jump_ff(std::istream& code), called with the get position p: the    *)
(* value returned, the get position left behind and the failbit.           *)
(***************************************************************************)
RECURSIVE jump_ff_scan(_, _, _)
jump_ff_scan(c, p, skip) ==
    LET i == Extract(c, p) IN
    IF i = 0 THEN [ret |-> -1, pos |-> Len(c), fail |-> TRUE]
    ELSE IF c[i] = JMP_FWD THEN jump_ff_scan(c, i, skip + 1)
    ELSE IF c[i] = JMP_BCK
         THEN IF skip > 0 THEN jump_ff_scan(c, i, skip - 1)
              ELSE [ret |-> 0, pos |-> i, fail |-> FALSE]
    ELSE jump_ff_scan(c, i, skip)

\* (a variant that does not count the loops inside the skipped body: it
\* stops at the first loop-close)
RECURSIVE jump_ff_first_scan(_, _)
jump_ff_first_scan(c, p) ==
    LET i == Extract(c, p) IN
    IF i = 0 THEN [ret |-> -1, pos |-> Len(c), fail |-> TRUE]
    ELSE IF c[i] = JMP_BCK THEN [ret |-> 0, pos |-> i, fail |-> FALSE]
    ELSE jump_ff_first_scan(c, i)

jump_ff_first_close(c, p) == jump_ff_first_scan(c, p)

jump_ff(c, p) == jump_ff_scan(c, p, 0)

(***************************************************************************)
(* uint64_t bf_ptroffset(int offset), on the globals ptr and memsize.      *)
(***************************************************************************)
\* (a variant that wraps one step late when moving left)
bf_ptroffset_late(offset) ==
    IF offset = 0 THEN ptr
    ELSE LET offset_abs == IF offset < 0 THEN -offset ELSE offset IN
         IF offset > 0
         THEN LET diff == memsize - ptr IN
              IF UGt(diff, offset_abs) THEN ptr + offset_abs
              ELSE 0 + (offset_abs - diff)
         ELSE LET diff == ptr IN
              IF UGe(diff, offset_abs) THEN ptr - offset_abs
              ELSE memsize - (offset_abs - diff) + 1

bf_ptroffset(offset) ==
    IF offset = 0 THEN ptr
    ELSE LET offset_abs == IF offset < 0 THEN -offset ELSE offset IN
         IF offset > 0
         THEN LET diff == memsize - ptr IN
              IF UGt(diff, offset_abs) THEN ptr + offset_abs
              ELSE 0 + (offset_abs - diff)
         ELSE LET diff == ptr IN
              IF UGe(diff, offset_abs) THEN ptr - offset_abs
              ELSE memsize - (offset_abs - diff)

(***************************************************************************)
(* uint64_t ptr_offset(int offset) of the single-file version              *)
(* (src/main.cpp), on ptr_loc and mem_size.                                *)
(***************************************************************************)
ptr_offset(ptr_loc, mem_size, offset) ==
    IF offset = 0 THEN ptr_loc
    ELSE IF offset > 0
         THEN LET diff == mem_size - ptr_loc IN
              IF UGt(diff, offset) THEN ptr_loc + offset
              ELSE 0 + (offset - diff)
         ELSE LET diff == ptr_loc IN
              IF UGe(diff, -offset) THEN ptr_loc + offset
              ELSE mem_size - ((-offset) - diff)

(***************************************************************************)
(* The cell  *cell  with  cell = mem + ptr.  With ptr outside the buffer   *)
(* the access is undefined: it may fault (DispatchFault), a read may give  *)
(* any byte, and a write lands outside the tape.                           *)
(***************************************************************************)
WildBytes  == {0, 1}
InBounds   == ptr \in DOMAIN mem
CellValues == IF InBounds THEN {mem[ptr]} ELSE WildBytes
Store(v)   == IF InBounds THEN [mem EXCEPT ![ptr] = v] ELSE mem

Zeroed(size) == [i \in 0..(size - 1) |-> 0]

(***************************************************************************)
(* A reference interpreter, run beside bf_execute on well-nested texts: it *)
(* keeps an instruction index and takes its jumps from the table of        *)
(* matching brackets.  The tape is circular, cells are bytes, and at the   *)
(* end of input , stores the byte of EOF.                                  *)
(***************************************************************************)
Depth(c, k) ==
    Cardinality({ i \in 1..k : c[i] = JMP_FWD })
        - Cardinality({ i \in 1..k : c[i] = JMP_BCK })

WellNestedText(c) ==
    /\ Depth(c, Len(c)) = 0
    /\ \A k \in 1..Len(c) : Depth(c, k) >= 0

MatchingClose(c, i) ==
    CHOOSE j \in (i + 1)..Len(c) :
        /\ c[j] = JMP_BCK
        /\ Depth(c, j) = Depth(c, i - 1)
        /\ \A m \in i..(j - 1) : Depth(c, m) > Depth(c, i - 1)

MatchingOpen(c, j) ==
    CHOOSE i \in 1..(j - 1) : c[i] = JMP_FWD /\ MatchingClose(c, i) = j

\* the table of matching brackets, computed before the run
RefJumpTable(c) ==
    [ i \in { k \in 1..Len(c) : c[k] \in {JMP_FWD, JMP_BCK} } |->
        IF c[i] = JMP_FWD THEN MatchingClose(c, i) ELSE MatchingOpen(c, i) ]

\* the first index from i on that holds no white space, Len(c) + 1 if none
RefSkipBlank(c, i) ==
    CHOOSE j \in i..(Len(c) + 1) :
        /\ j = Len(c) + 1 \/ c[j] # Space
        /\ \A m \in i..(j - 1) : c[m] = Space

RefIdle == [ on |-> FALSE, ip |-> 0, mem |-> << >>, ptr |-> 0,
             out |-> << >>, stdin |-> << >>, size |-> 0, jump |-> << >> ]

RefStart(c) ==
    IF WellNestedText(c) /\ ptr \in DOMAIN mem
    THEN [ on |-> TRUE, ip |-> RefSkipBlank(c, 1), mem |-> mem, ptr |-> ptr,
           out |-> << >>, stdin |-> stdin, size |-> memsize,
           jump |-> RefJumpTable(c) ]
    ELSE RefIdle

RefHalted(c, r) == r.ip > Len(c)

RefStep(c, r) ==
    IF ~r.on \/ RefHalted(c, r) THEN r
    ELSE
    LET ch   == c[r.ip]
        v    == r.mem[r.ptr]
        size == r.size
        on   == RefSkipBlank(c, r.ip + 1)
    IN CASE ch = PTR_INC -> [r EXCEPT !.ip = on, !.ptr = (r.ptr + 1) % size]
         [] ch = PTR_DEC -> [r EXCEPT !.ip = on, !.ptr = (r.ptr + size - 1) % size]
         [] ch = MEM_INC -> [r EXCEPT !.ip = on, !.mem[r.ptr] = (v + 1) % 256]
         [] ch = MEM_DEC -> [r EXCEPT !.ip = on, !.mem[r.ptr] = (v + 255) % 256]
         [] ch = PUT_CHR -> [r EXCEPT !.ip = on, !.out = Append(r.out, v)]
         [] ch = GET_CHR ->
                IF r.stdin = << >>
                THEN [r EXCEPT !.ip = on, !.mem[r.ptr] = 255]
                ELSE [r EXCEPT !.ip = on, !.mem[r.ptr] = Head(r.stdin),
                               !.stdin = Tail(r.stdin)]
         [] ch = JMP_FWD ->
                IF v = 0
                THEN [r EXCEPT !.ip = RefSkipBlank(c, r.jump[r.ip] + 1)]
                ELSE [r EXCEPT !.ip = on]
         [] ch = JMP_BCK ->
                IF v # 0
                THEN [r EXCEPT !.ip = RefSkipBlank(c, r.jump[r.ip] + 1)]
                ELSE [r EXCEPT !.ip = on]
         [] OTHER -> [r EXCEPT !.ip = on]


Init ==
    /\ mem = NULL
    /\ memsize = 0
    /\ ptr = 0
    /\ goto_stack = << >>
    /\ stack_corrupt = FALSE
    /\ code = << >>
    /\ pos = 0
    /\ stream_fail = FALSE
    /\ pc = "idle"
    /\ result = 0
    /\ out = << >>
    /\ calls = 0
    /\ last_op = "start"
    /\ dispatched = FALSE
    /\ pushes = 0
    /\ pops = 0
    /\ ff_eof = FALSE
    /\ wild_tops = 0
    /\ q_offset = 0
    /\ q_result = 0
    /\ stdin = << 65 >>
    /\ newlines = 0
    /\ shown = << >>
    /\ entry = Snapshot
    /\ ref = RefIdle


(***************************************************************************)
(* int bf_malloc(uint64_t size).  calloc may fail for any size; the old    *)
(* buffer is freed before the new one is requested.  ptr is not touched.   *)
(***************************************************************************)
BfMalloc(size) ==
    /\ pc = "idle"
    /\ mem' = Zeroed(size)
    /\ memsize' = size
    /\ last_op' = "malloc"
    /\ entry' = Snapshot
    /\ ref' = RefIdle
    /\ UNCHANGED << ptr, goto_stack, stack_corrupt, stream, pc, result, out,
                    calls, dispatched, pushes, pops, ff_eof, wild_tops, query, stdin, shellv >>

\* calloc returns NULL: bf_malloc returns -1 with the old buffer freed, and
\* the caller ends the process (as main does after a failed calloc).
BfMallocFail(size) ==
    /\ pc = "idle"
    /\ mem' = NULL
    /\ pc' = "exited"
    /\ last_op' = "malloc_failed"
    /\ entry' = Snapshot
    /\ ref' = RefIdle
    /\ UNCHANGED << memsize, ptr, goto_stack, stack_corrupt, stream, result,
                    out, calls, dispatched, pushes, pops, ff_eof, wild_tops, query, stdin, shellv >>

(***************************************************************************)
(* void bf_reset(), the shell command r.                                   *)
(***************************************************************************)
\* (a variant that forgets the pointer)
bf_reset_cells_only ==
    /\ mem' = [i \in DOMAIN mem |-> 0]
    /\ ptr' = ptr

bf_reset ==
    /\ mem' = [i \in DOMAIN mem |-> 0]
    /\ ptr' = 0

BfReset ==
    /\ pc = "idle"
    /\ mem # NULL
    /\ bf_reset
    /\ last_op' = "reset"
    /\ entry' = Snapshot
    /\ ref' = RefIdle
    /\ UNCHANGED << memsize, goto_stack, stack_corrupt, stream, pc, result,
                    out, calls, dispatched, pushes, pops, ff_eof, wild_tops, query, stdin, shellv >>

(***************************************************************************)
(* int bf_execute(std::istream& code): the call, up to the first           *)
(* extraction of the dispatch loop.                                        *)
(***************************************************************************)
CallStarts(c) ==
    /\ pc = "idle"
    /\ mem # NULL
    /\ calls < MaxCalls
    /\ calls' = calls + 1
    /\ code' = c
    /\ entry' = Snapshot
    /\ dispatched' = FALSE
    /\ pushes' = 0
    /\ pops' = 0
    /\ ff_eof' = FALSE
    /\ wild_tops' = 0
    /\ out' = << >>
    /\ shown' = << >>
    /\ ref' = RefStart(c)
    /\ last_op' = "execute"

\* verify fails: "Inputted code is invalid" goes to std::cerr, return -1
BfExecuteInvalid(c) ==
    /\ CallStarts(c)
    /\ verify(c) = 0
    /\ result' = -1
    /\ pos' = Len(c)
    /\ stream_fail' = TRUE
    /\ UNCHANGED << engine, pc, query, stdin, newlines >>

\* (a variant that tests the value of verify the way the single-file
\* version does, "verify(code) < 0", and so never rejects)
BfExecuteBeginSignTest(c) ==
    /\ CallStarts(c)
    /\ ~(verify(c) < 0)
    /\ pc' = "exec"
    /\ pos' = 0
    /\ stream_fail' = FALSE
    /\ result' = 0
    /\ UNCHANGED << engine, query, stdin, newlines >>

\* (a variant that starts every run on a fresh tape)
BfExecuteBeginFresh(c) ==
    /\ CallStarts(c)
    /\ verify(c) # 0
    /\ pc' = "exec"
    /\ pos' = 0
    /\ stream_fail' = FALSE
    /\ result' = 0
    /\ bf_reset
    /\ UNCHANGED << memsize, goto_stack, stack_corrupt, query, stdin, newlines >>

\* verify succeeds: code.clear(); code.seekg(0);
BfExecuteBegin(c) ==
    /\ CallStarts(c)
    /\ verify(c) # 0
    /\ pc' = "exec"
    /\ pos' = 0
    /\ stream_fail' = FALSE
    /\ result' = 0
    /\ UNCHANGED << engine, query, stdin, newlines >>

(***************************************************************************)
(* One turn of  while (code >> cmd) { switch (cmd) ... }                   *)
(***************************************************************************)
Fetched == IF pc = "exec" /\ ~stream_fail THEN Extract(code, pos) ELSE 0

Dispatch(cmd) ==
    /\ Fetched # 0
    /\ code[Fetched] = cmd
    /\ dispatched' = TRUE
    /\ ref' = RefStep(code, ref)
    /\ UNCHANGED << code, pc, result, calls, last_op, entry, query, memsize,
                    shellv >>

DispatchPtrInc ==
    /\ Dispatch(PTR_INC)
    /\ bf_ptroffset(1) <= MaxPtr
    /\ ptr' = bf_ptroffset(1)
    /\ pos' = Fetched
    /\ UNCHANGED << stdin, wild_tops, mem, goto_stack, stack_corrupt, stream_fail, out,
                    pushes, pops, ff_eof >>

DispatchPtrDec ==
    /\ Dispatch(PTR_DEC)
    /\ ptr' = bf_ptroffset(-1)
    /\ pos' = Fetched
    /\ UNCHANGED << stdin, wild_tops, mem, goto_stack, stack_corrupt, stream_fail, out,
                    pushes, pops, ff_eof >>

\* (a variant that saturates at 255 instead of wrapping)
DispatchMemIncSaturating ==
    /\ Dispatch(MEM_INC)
    /\ \E v \in CellValues : mem' = Store(IF v = 255 THEN 255 ELSE v + 1)
    /\ pos' = Fetched
    /\ UNCHANGED << stdin, wild_tops, ptr, goto_stack, stack_corrupt, stream_fail, out,
                    pushes, pops, ff_eof >>

DispatchMemInc ==
    /\ Dispatch(MEM_INC)
    /\ \E v \in CellValues : mem' = Store(Byte(v + 1))
    /\ pos' = Fetched
    /\ UNCHANGED << stdin, wild_tops, ptr, goto_stack, stack_corrupt, stream_fail, out,
                    pushes, pops, ff_eof >>

\* (a variant that stays at 0 instead of wrapping)
DispatchMemDecSaturating ==
    /\ Dispatch(MEM_DEC)
    /\ \E v \in CellValues : mem' = Store(IF v = 0 THEN 0 ELSE v - 1)
    /\ pos' = Fetched
    /\ UNCHANGED << stdin, wild_tops, ptr, goto_stack, stack_corrupt, stream_fail, out,
                    pushes, pops, ff_eof >>

DispatchMemDec ==
    /\ Dispatch(MEM_DEC)
    /\ \E v \in CellValues : mem' = Store(Byte(v - 1))
    /\ pos' = Fetched
    /\ UNCHANGED << stdin, wild_tops, ptr, goto_stack, stack_corrupt, stream_fail, out,
                    pushes, pops, ff_eof >>

DispatchPutChr ==
    /\ Dispatch(PUT_CHR)
    /\ Len(out) < MaxOut
    /\ \E v \in CellValues : out' = Append(out, v)
    /\ pos' = Fetched
    /\ UNCHANGED << stdin, wild_tops, mem, ptr, goto_stack, stack_corrupt, stream_fail,
                    pushes, pops, ff_eof >>

\* (a variant that delivers 0 at the end of input)
getchar_zero_at_end == IF stdin = << >> THEN 0 ELSE Head(stdin)

\* getchar(): the next byte of standard input, or EOF when there is none
getchar == IF stdin = << >> THEN EOF ELSE Head(stdin)

\* (a variant that keeps seven bits of the byte read)
DispatchGetChrAscii ==
    /\ Dispatch(GET_CHR)
    /\ mem' = Store(getchar % 128)
    /\ stdin' = IF stdin = << >> THEN stdin ELSE Tail(stdin)
    /\ pos' = Fetched
    /\ UNCHANGED << wild_tops, ptr, goto_stack, stack_corrupt, stream_fail, out,
                    pushes, pops, ff_eof >>

DispatchGetChr ==
    /\ Dispatch(GET_CHR)
    /\ mem' = Store(Byte(getchar))
    /\ stdin' = IF stdin = << >> THEN stdin ELSE Tail(stdin)
    /\ pos' = Fetched
    /\ UNCHANGED << wild_tops, ptr, goto_stack, stack_corrupt, stream_fail, out,
                    pushes, pops, ff_eof >>

StackUsable == ~stack_corrupt /\ goto_stack # << >>

\* (a variant that pushes the position of the loop-open itself, so that the
\* loop-open is dispatched, and pushes, on every turn)
DispatchJmpFwdPushBefore ==
    /\ Dispatch(JMP_FWD)
    /\ \E v \in CellValues : v # 0
    /\ pushes < MaxOps
    /\ pushes' = pushes + 1
    /\ goto_stack' = IF stack_corrupt THEN goto_stack
                     ELSE Append(goto_stack, Fetched - 1)
    /\ pos' = Fetched
    /\ UNCHANGED << stdin, wild_tops, mem, ptr, stack_corrupt, stream_fail, out, pops, ff_eof >>

\* case JMP_FWD with *cell != 0: goto_stack.push(code.tellg()).  On a
\* container whose invariants are gone the write goes through a wild
\* pointer: it faults (StackFault) or leaves the container as broken.
DispatchJmpFwdPush ==
    /\ Dispatch(JMP_FWD)
    /\ \E v \in CellValues : v # 0
    /\ pushes < MaxOps
    /\ pushes' = pushes + 1
    /\ goto_stack' = IF stack_corrupt THEN goto_stack
                     ELSE Append(goto_stack, Fetched)
    /\ pos' = Fetched
    /\ UNCHANGED << stdin, wild_tops, mem, ptr, stack_corrupt, stream_fail, out, pops, ff_eof >>

\* (a variant that pushes the position before it skips the loop)
DispatchJmpFwdSkipPushes ==
    /\ Dispatch(JMP_FWD)
    /\ \E v \in CellValues : v = 0
    /\ goto_stack' = Append(goto_stack, Fetched)
    /\ LET r == jump_ff(code, Fetched) IN
         /\ pos' = r.pos
         /\ stream_fail' = r.fail
         /\ ff_eof' = (ff_eof \/ r.ret = -1)
    /\ UNCHANGED << stdin, wild_tops, mem, ptr, stack_corrupt, out, pushes, pops >>

\* case JMP_FWD with *cell == 0: jump_ff(code), its value is dropped
DispatchJmpFwdSkip ==
    /\ Dispatch(JMP_FWD)
    /\ \E v \in CellValues : v = 0
    /\ LET r == jump_ff(code, Fetched) IN
         /\ pos' = r.pos
         /\ stream_fail' = r.fail
         /\ ff_eof' = (ff_eof \/ r.ret = -1)
    /\ UNCHANGED << stdin, wild_tops, mem, ptr, goto_stack, stack_corrupt, out, pushes, pops >>

\* (a variant that does not seek back: the loop body runs once)
DispatchJmpBckLoopFalls ==
    /\ Dispatch(JMP_BCK)
    /\ \E v \in CellValues : v # 0
    /\ StackUsable
    /\ pos' = Fetched
    /\ UNCHANGED << stdin, wild_tops, mem, ptr, goto_stack, stack_corrupt, stream_fail, out,
                    pushes, pops, ff_eof >>

\* case JMP_BCK with *cell != 0: code.seekg(goto_stack.top())
DispatchJmpBckLoop ==
    /\ Dispatch(JMP_BCK)
    /\ \E v \in CellValues : v # 0
    /\ StackUsable
    /\ pos' = goto_stack[Len(goto_stack)]
    /\ UNCHANGED << stdin, wild_tops, mem, ptr, goto_stack, stack_corrupt, stream_fail, out,
                    pushes, pops, ff_eof >>

\* the same with nothing to read: top() is undefined.  It faults
\* (StackFault) or yields whatever lies next to the container's storage:
\* a position of the stream, or a value outside it, on which seekg sets
\* the failbit.
DispatchJmpBckLoopWild ==
    /\ Dispatch(JMP_BCK)
    /\ \E v \in CellValues : v # 0
    /\ ~StackUsable
    /\ \/ /\ wild_tops < MaxWild
          /\ wild_tops' = wild_tops + 1
          /\ pos' \in 0..Len(code)
          /\ UNCHANGED stream_fail
       \/ /\ stream_fail' = TRUE
          /\ UNCHANGED << pos, wild_tops >>
    /\ UNCHANGED << stdin, mem, ptr, goto_stack, stack_corrupt, out,
                    pushes, pops, ff_eof >>

\* (a variant that leaves the loop without popping)
DispatchJmpBckPopKeeps ==
    /\ Dispatch(JMP_BCK)
    /\ \E v \in CellValues : v = 0
    /\ StackUsable
    /\ pops < MaxOps
    /\ pops' = pops + 1
    /\ goto_stack' = goto_stack
    /\ pos' = Fetched
    /\ UNCHANGED << stdin, wild_tops, mem, ptr, stack_corrupt, stream_fail, out, pushes, ff_eof >>

\* case JMP_BCK with *cell == 0: goto_stack.pop()
DispatchJmpBckPop ==
    /\ Dispatch(JMP_BCK)
    /\ \E v \in CellValues : v = 0
    /\ StackUsable
    /\ pops < MaxOps
    /\ pops' = pops + 1
    /\ goto_stack' = SubSeq(goto_stack, 1, Len(goto_stack) - 1)
    /\ pos' = Fetched
    /\ UNCHANGED << stdin, wild_tops, mem, ptr, stack_corrupt, stream_fail, out, pushes, ff_eof >>

\* the same on an empty (or already broken) container: pop() is undefined;
\* without a fault the container is left broken (it no longer reports empty)
DispatchJmpBckPopWild ==
    /\ Dispatch(JMP_BCK)
    /\ \E v \in CellValues : v = 0
    /\ ~StackUsable
    /\ pops < MaxOps
    /\ pops' = pops + 1
    /\ stack_corrupt' = TRUE
    /\ pos' = Fetched
    /\ UNCHANGED << stdin, wild_tops, mem, ptr, goto_stack, stream_fail, out, pushes, ff_eof >>

\* (a variant whose switch ends the run at a character it does not know)
DispatchOtherStops ==
    /\ Fetched # 0
    /\ Dispatch(code[Fetched])
    /\ code[Fetched] \notin Commands
    /\ pos' = Fetched
    /\ stream_fail' = TRUE
    /\ UNCHANGED << stdin, wild_tops, mem, ptr, goto_stack, stack_corrupt, out,
                    pushes, pops, ff_eof >>

\* any other character: no case of the switch
DispatchOther ==
    /\ Fetched # 0
    /\ Dispatch(code[Fetched])
    /\ code[Fetched] \notin Commands
    /\ pos' = Fetched
    /\ UNCHANGED << stdin, wild_tops, mem, ptr, goto_stack, stack_corrupt, stream_fail, out,
                    pushes, pops, ff_eof >>

\* *cell with mem + ptr outside the buffer may end the process
DispatchFault ==
    /\ Fetched # 0
    /\ code[Fetched] \in Commands \ {PTR_INC, PTR_DEC}
    /\ ~InBounds
    /\ pc' = "crashed"
    /\ UNCHANGED << engine, stream, result, out, calls, last_op, callLog, query, stdin, shellv, ref >>

\* push on a broken container, top() or pop() on an empty or broken one
\* may end the process (a fault, or the library's assertion)
StackFault ==
    /\ Fetched # 0
    /\ \/ code[Fetched] = JMP_FWD /\ stack_corrupt /\ \E v \in CellValues : v # 0
       \/ code[Fetched] = JMP_BCK /\ ~StackUsable
    /\ pc' = "crashed"
    /\ UNCHANGED << engine, stream, result, out, calls, last_op, callLog, query, stdin, shellv, ref >>

\* the extraction fails: the loop ends, return 0
BfExecuteReturn ==
    /\ pc = "exec"
    /\ Fetched = 0
    /\ pc' = "idle"
    /\ result' = 0
    /\ stream_fail' = TRUE
    /\ UNCHANGED << engine, code, pos, out, calls, last_op, callLog, query, stdin, shellv, ref >>

(***************************************************************************)
(* int shell_cmd(std::string input): one turn of  while (in_str >> cmd),   *)
(* one action per case of the switch.  Case 'r' is BfReset above.          *)
(***************************************************************************)
SHELL_WINDOW_SIZE == 5

\* the istringstream of the line before, and what bf_execute returned for
\* it, are gone when shell() reads the next line
LineEnds ==
    /\ code' = << >>
    /\ pos' = 0
    /\ stream_fail' = FALSE
    /\ result' = 0
    /\ out' = << >>
    /\ dispatched' = FALSE
    /\ pushes' = 0
    /\ pops' = 0
    /\ ff_eof' = FALSE
    /\ wild_tops' = 0
    /\ ref' = RefIdle

ShellCmd(name) ==
    /\ pc = "idle"
    /\ mem # NULL
    /\ last_op' = name
    /\ entry' = Snapshot
    /\ LineEnds
    /\ UNCHANGED << engine, calls, query, stdin >>

\* case 'q': return 1, and shell() returns to main
ShellQuit ==
    /\ ShellCmd("shell_q")
    /\ pc' = "exited"
    /\ UNCHANGED shellv

\* case 'h': shell_help()
ShellHelp ==
    /\ ShellCmd("shell_h")
    /\ shown' = << >>
    /\ UNCHANGED << pc, newlines >>

\* case 'l': std::cout << bf_ptr()
ShellLocation ==
    /\ ShellCmd("shell_l")
    /\ shown' = << ptr >>
    /\ UNCHANGED << pc, newlines >>

\* case 'x': printf("0x%.2x\n", bf_value())
ShellHex ==
    /\ ShellCmd("shell_x")
    /\ \E v \in CellValues : shown' = << v >>
    /\ UNCHANGED << pc, newlines >>

\* case 'd': printf("%d\n", bf_value())
ShellDec ==
    /\ ShellCmd("shell_d")
    /\ \E v \in CellValues : shown' = << v >>
    /\ UNCHANGED << pc, newlines >>

\* case 'w': for i = 0..4, offset = i - SHELL_WINDOW_SIZE / 2; the first
\* row prints bf_value(bf_ptroffset(offset)), the second the locations
\* bf_ptroffset(offset) themselves.  A location outside the buffer reads
\* whatever lies there (or faults, ShellFault).
WindowSlots == 0..(SHELL_WINDOW_SIZE - 1)
WindowLocation(i) == bf_ptroffset(i - (SHELL_WINDOW_SIZE \div 2))

ShellWindowMoves ==
    /\ ptr' = WindowLocation(SHELL_WINDOW_SIZE - 1)
    /\ UNCHANGED << mem, memsize, goto_stack, stack_corrupt >>

ShellWindowReads ==
    UNCHANGED engine

ShellWindow ==
    /\ pc = "idle"
    /\ mem # NULL
    /\ last_op' = "shell_w"
    /\ entry' = Snapshot
    /\ ShellWindowReads
    /\ \E wild \in [{ i \in WindowSlots : WindowLocation(i) \notin DOMAIN mem }
                     -> WildBytes] :
          shown' = [ k \in 1..(2 * SHELL_WINDOW_SIZE) |->
                       IF k <= SHELL_WINDOW_SIZE
                       THEN IF WindowLocation(k - 1) \in DOMAIN mem
                            THEN mem[WindowLocation(k - 1)]
                            ELSE wild[k - 1]
                       ELSE WindowLocation(k - 1 - SHELL_WINDOW_SIZE) ]
    /\ LineEnds
    /\ UNCHANGED << pc, calls, query, stdin, newlines >>

\* case 'n': the flag is flipped
ShellNewlines ==
    /\ ShellCmd("shell_n")
    /\ newlines' = IF newlines # 0 THEN 0 ELSE 1
    /\ shown' = << >>
    /\ UNCHANGED pc

\* default: "Unknown command"
ShellUnknown ==
    /\ ShellCmd("shell_unknown")
    /\ shown' = << >>
    /\ UNCHANGED << pc, newlines >>

\* bf_value() or bf_value(location) outside the buffer may end the process
ShellFault ==
    /\ pc = "idle"
    /\ mem # NULL
    /\ \/ ~InBounds
       \/ \E i \in WindowSlots : WindowLocation(i) \notin DOMAIN mem
    /\ pc' = "crashed"
    /\ UNCHANGED << engine, stream, result, out, calls, last_op, callLog,
                    query, stdin, shellv, ref >>

Sizes == 1..MaxSize

Next ==
    \/ \E size \in Sizes : BfMalloc(size)
    \/ \E size \in Sizes : BfMallocFail(size)
    \/ BfReset
    \/ \E c \in Programs : BfExecuteInvalid(c)
    \/ \E c \in Programs : BfExecuteBegin(c)
    \/ DispatchPtrInc
    \/ DispatchPtrDec
    \/ DispatchMemInc
    \/ DispatchMemDec
    \/ DispatchPutChr
    \/ DispatchGetChr
    \/ DispatchJmpFwdPush
    \/ DispatchJmpFwdSkip
    \/ DispatchJmpBckLoop
    \/ DispatchJmpBckLoopWild
    \/ DispatchJmpBckPop
    \/ DispatchJmpBckPopWild
    \/ DispatchOther
    \/ DispatchFault
    \/ StackFault
    \/ BfExecuteReturn

Spec == Init /\ [][Next]_vars


(***************************************************************************)
(* bf_ptroffset on its own: any tape size, any pointer on the tape, any    *)
(* offset, as the shell's window command and other callers use it.         *)
(***************************************************************************)
Deltas == (-MaxDelta)..MaxDelta

BfPtrOffsetCall(offset) ==
    /\ pc = "idle"
    /\ mem # NULL
    /\ q_offset' = offset
    /\ q_result' = bf_ptroffset(offset)
    /\ last_op' = "ptroffset"
    /\ entry' = Snapshot
    /\ UNCHANGED << engine, stream, pc, result, out, calls, dispatched,
                    pushes, pops, ff_eof, wild_tops, stdin, shellv, ref >>

InitOffset ==
    /\ memsize \in Sizes
    /\ mem = Zeroed(memsize)
    /\ ptr \in 0..(memsize - 1)
    /\ goto_stack = << >>
    /\ stack_corrupt = FALSE
    /\ code = << >>
    /\ pos = 0
    /\ stream_fail = FALSE
    /\ pc = "idle"
    /\ result = 0
    /\ out = << >>
    /\ calls = 0
    /\ last_op = "start"
    /\ dispatched = FALSE
    /\ pushes = 0
    /\ pops = 0
    /\ ff_eof = FALSE
    /\ wild_tops = 0
    /\ q_offset = 0
    /\ q_result = 0
    /\ stdin = << >>
    /\ newlines = 0
    /\ shown = << >>
    /\ entry = Snapshot
    /\ ref = RefIdle

NextOffset == \E offset \in Deltas : BfPtrOffsetCall(offset)

SpecOffset == InitOffset /\ [][NextOffset]_vars

(***************************************************************************)
(* The gate of bf_execute on its own: every text of brackets, inert        *)
(* characters and white space up to MaxVLen characters.                    *)
(***************************************************************************)
BracketAlphabet == {JMP_FWD, JMP_BCK, OtherChar, Space}
BracketTexts == UNION { [1..n -> BracketAlphabet] : n \in 0..MaxVLen }

InitVerify ==
    /\ memsize = 1
    /\ mem = Zeroed(1)
    /\ ptr = 0
    /\ goto_stack = << >>
    /\ stack_corrupt = FALSE
    /\ code = << >>
    /\ pos = 0
    /\ stream_fail = FALSE
    /\ pc = "idle"
    /\ result = 0
    /\ out = << >>
    /\ calls = MaxCalls - 1      \* one call
    /\ last_op = "start"
    /\ dispatched = FALSE
    /\ pushes = 0
    /\ pops = 0
    /\ ff_eof = FALSE
    /\ wild_tops = 0
    /\ q_offset = 0
    /\ q_result = 0
    /\ stdin = << >>
    /\ newlines = 0
    /\ shown = << >>
    /\ entry = Snapshot
    /\ ref = RefIdle

NextVerify ==
    \/ \E c \in BracketTexts : BfExecuteInvalid(c)
    \/ \E c \in BracketTexts : BfExecuteBegin(c)

SpecVerify == InitVerify /\ [][NextVerify]_vars


(***************************************************************************)
(* A shell session: main has allocated the tape, shell() reads lines; a    *)
(* line that starts with $ is a string of commands, any other line is run  *)
(* by bf_execute.  bf_malloc is not called again.                          *)
(***************************************************************************)
ShellPrograms == { ProgRight, ProgLeft, ProgInc, ProgDec, ProgInert, ProgEcho,
                   ProgClear, ProgMove, ProgClose, ProgCloseOpen,
                   ProgDecCloseOpen }

InitShell ==
    /\ memsize \in Sizes
    /\ mem = Zeroed(memsize)
    /\ ptr = 0
    /\ goto_stack = << >>
    /\ stack_corrupt = FALSE
    /\ code = << >>
    /\ pos = 0
    /\ stream_fail = FALSE
    /\ pc = "idle"
    /\ result = 0
    /\ out = << >>
    /\ calls = 0
    /\ last_op = "start"
    /\ dispatched = FALSE
    /\ pushes = 0
    /\ pops = 0
    /\ ff_eof = FALSE
    /\ wild_tops = 0
    /\ q_offset = 0
    /\ q_result = 0
    /\ stdin = << 65 >>
    /\ newlines \in {0, 1}
    /\ shown = << >>
    /\ entry = Snapshot
    /\ ref = RefIdle

NextShell ==
    \/ ShellQuit
    \/ ShellHelp
    \/ ShellLocation
    \/ ShellHex
    \/ ShellDec
    \/ ShellWindow
    \/ ShellNewlines
    \/ BfReset
    \/ ShellUnknown
    \/ ShellFault
    \/ \E c \in ShellPrograms : BfExecuteInvalid(c)
    \/ \E c \in ShellPrograms : BfExecuteBegin(c)
    \/ DispatchPtrInc
    \/ DispatchPtrDec
    \/ DispatchMemInc
    \/ DispatchMemDec
    \/ DispatchPutChr
    \/ DispatchGetChr
    \/ DispatchJmpFwdPush
    \/ DispatchJmpFwdSkip
    \/ DispatchJmpBckLoop
    \/ DispatchJmpBckLoopWild
    \/ DispatchJmpBckPop
    \/ DispatchJmpBckPopWild
    \/ DispatchOther
    \/ StackFault
    \/ BfExecuteReturn

SpecShell == InitShell /\ [][NextShell]_vars


(***************************************************************************)
(* One bf_execute call on a tape that earlier calls have written: the      *)
(* cell under the pointer and its left neighbour hold sample values, the   *)
(* other cells 0.  A pointer one past the tape is what a shrinking         *)
(* bf_malloc leaves behind, over zeroed cells.                             *)
(***************************************************************************)
CurSamples  == {0, 3}
LeftSamples == {0, 254}

LeftOf(p, size) == (p + size - 1) % size

RunTapes(size, p) ==
    IF p \notin 0..(size - 1) THEN { Zeroed(size) }
    ELSE { [i \in 0..(size - 1) |->
              IF i = p THEN cur
              ELSE IF i = LeftOf(p, size) THEN left
              ELSE 0] : cur \in CurSamples, left \in LeftSamples }

RunPrograms == { ProgIncRound, ProgDecRound, ProgIncDec, ProgDecInc,
                 ProgScenarioA, ProgScenarioAPadded, ProgAddLeft,
                 ProgAddLeftPadded, ProgInert, ProgSkip, ProgForever,
                 ProgEcho, ProgClear, ProgNested, ProgClose, ProgCloseOpen,
                 ProgDecCloseOpen }

InitRun ==
    /\ memsize \in Sizes
    /\ ptr \in 0..memsize
    /\ mem \in RunTapes(memsize, ptr)
    /\ goto_stack = << >>
    /\ stack_corrupt = FALSE
    /\ code = << >>
    /\ pos = 0
    /\ stream_fail = FALSE
    /\ pc = "idle"
    /\ result = 0
    /\ out = << >>
    /\ calls = MaxCalls - 1      \* one call
    /\ last_op = "start"
    /\ dispatched = FALSE
    /\ pushes = 0
    /\ pops = 0
    /\ ff_eof = FALSE
    /\ wild_tops = 0
    /\ q_offset = 0
    /\ q_result = 0
    /\ stdin = << 65 >>
    /\ newlines = 0
    /\ shown = << >>
    /\ entry = Snapshot
    /\ ref = RefIdle

NextRun ==
    \/ \E c \in RunPrograms : BfExecuteInvalid(c)
    \/ \E c \in RunPrograms : BfExecuteBegin(c)
    \/ DispatchPtrInc
    \/ DispatchPtrDec
    \/ DispatchMemInc
    \/ DispatchMemDec
    \/ DispatchPutChr
    \/ DispatchGetChr
    \/ DispatchJmpFwdPush
    \/ DispatchJmpFwdSkip
    \/ DispatchJmpBckLoop
    \/ DispatchJmpBckLoopWild
    \/ DispatchJmpBckPop
    \/ DispatchJmpBckPopWild
    \/ DispatchOther
    \/ DispatchFault
    \/ StackFault
    \/ BfExecuteReturn

SpecRun == InitRun /\ [][NextRun]_vars

\* the processor keeps running the call: a step that can be taken is taken
FairRun == SpecRun /\ WF_vars(NextRun)

(***************************************************************************)
(* ",." and "." with every byte that standard input can deliver next.      *)
(***************************************************************************)
EchoPrograms == { ProgEcho, ProgPut, ProgReadTwice }

InitEcho ==
    /\ memsize \in Sizes
    /\ ptr \in 0..(memsize - 1)
    /\ mem \in RunTapes(memsize, ptr)
    /\ goto_stack = << >>
    /\ stack_corrupt = FALSE
    /\ code = << >>
    /\ pos = 0
    /\ stream_fail = FALSE
    /\ pc = "idle"
    /\ result = 0
    /\ out = << >>
    /\ calls = MaxCalls - 1      \* one call
    /\ last_op = "start"
    /\ dispatched = FALSE
    /\ pushes = 0
    /\ pops = 0
    /\ ff_eof = FALSE
    /\ wild_tops = 0
    /\ q_offset = 0
    /\ q_result = 0
    /\ stdin \in { << b >> : b \in 0..(CellRange - 1) } \cup { << >> }
    /\ newlines = 0
    /\ shown = << >>
    /\ entry = Snapshot
    /\ ref = RefIdle

NextEcho ==
    \/ \E c \in EchoPrograms : BfExecuteBegin(c)
    \/ DispatchMemInc
    \/ DispatchPutChr
    \/ DispatchGetChr
    \/ BfExecuteReturn

SpecEcho == InitEcho /\ [][NextEcho]_vars


(***************************************************************************)
(*                              The claims                                 *)
(***************************************************************************)
NumOf(c, ch) == Cardinality({ i \in 1..Len(c) : c[i] = ch })
Balanced(c)  == NumOf(c, JMP_FWD) = NumOf(c, JMP_BCK)

Returned     == last_op = "execute" /\ pc = "idle"
CleanEntry   == entry.goto_stack = << >> /\ ~entry.stack_corrupt
OnTapeEntry  == entry.ptr \in DOMAIN entry.mem
ZeroedEntry  == \A i \in DOMAIN entry.mem : entry.mem[i] = 0

\* C1: once a tape is allocated, the cursor is a valid index of it:
\* 0 <= ptr < memsize, whatever allocate, execute and reset calls were made.
C1_CursorOnTape ==
    mem # NULL => (0 <= ptr /\ ptr < memsize)

\* C2: for every tape size, every cursor on the tape and every offset, also
\* one larger than the tape, bf_ptroffset (and ptr_offset of the single-file
\* version) returns an index of the tape.
C2_OffsetOnTape ==
    last_op = "ptroffset" =>
        /\ 0 <= q_result /\ q_result < memsize
        /\ 0 <= ptr_offset(ptr, memsize, q_offset)
        /\ ptr_offset(ptr, memsize, q_offset) < memsize

\* C3: for an offset of magnitude at most the tape size, bf_ptroffset is
\* (cursor + offset) mod size; +size and -size give the cursor itself; the
\* call leaves the cursor (and the tape) as they were.
C3_OffsetIsModulo ==
    (last_op = "ptroffset" /\ -memsize <= q_offset /\ q_offset <= memsize) =>
        /\ q_result = (entry.ptr + q_offset) % memsize
        /\ (q_offset \in {memsize, -memsize} => q_result = entry.ptr)
        /\ ptr = entry.ptr
        /\ mem = entry.mem
        /\ memsize = entry.memsize

C3_Witness ==
    /\ last_op = "ptroffset"
    /\ q_offset = -memsize
    /\ memsize > 1
    /\ entry.ptr = 0
    /\ q_result = 0

\* C4: a text that verify rejects makes bf_execute return -1 with no
\* instruction dispatched: tape, cursor and return-position stack are as
\* they were at the call, and nothing was written to the output.
C4_RejectedHasNoEffect ==
    (last_op = "execute" /\ ~Balanced(code)) =>
        /\ pc = "idle"
        /\ result = -1
        /\ ~dispatched
        /\ mem = entry.mem
        /\ memsize = entry.memsize
        /\ ptr = entry.ptr
        /\ goto_stack = entry.goto_stack
        /\ stack_corrupt = entry.stack_corrupt
        /\ out = << >>

C4_Witness ==
    /\ last_op = "execute"
    /\ code = ProgClose
    /\ result = -1
    /\ pc = "idle"
    /\ ptr # 0
    /\ \E i \in DOMAIN mem : mem[i] # 0

\* C5: bf_execute lets a text through verify exactly when it holds as many
\* loop-opens as loop-closes, in any order; no other character matters.
C5_VerifyCountsBrackets ==
    last_op = "execute" =>
        /\ (verify(code) = 1) <=> Balanced(code)
        /\ (pc = "exec") <=> Balanced(code)
        /\ (pc = "idle" /\ result = -1) <=> ~Balanced(code)

C5_Witness ==
    /\ last_op = "execute"
    /\ pc = "exec"
    /\ Len(code) = 4
    /\ code[1] = JMP_BCK
    /\ code[2] = Space
    /\ code[3] = OtherChar
    /\ code[4] = JMP_FWD

\* C6: "][" run on a zeroed tape with an empty return-position stack is
\* accepted by verify and bf_execute returns 0.
C6_CloseOpenSucceeds ==
    (last_op = "execute" /\ code = ProgCloseOpen /\ ZeroedEntry /\ OnTapeEntry
        /\ CleanEntry /\ pc # "exec") =>
        (pc = "idle" /\ result = 0)

\* C7: when a fast-forward meets the end of the stream, bf_execute returns
\* an error, a value other than 0.
C7_TruncatedJumpIsAnError ==
    (Returned /\ ff_eof) => result # 0

\* C8: every bf_execute call starts with an empty return-position stack,
\* whatever the calls before it did.
C8_CallStartsWithEmptyStack ==
    last_op = "execute" => CleanEntry

\* C9: when bf_execute returns from a verified text, it has pushed as often
\* as it has popped, and the stack is as deep as at the call.
C9_PushesEqualPops ==
    (Returned /\ result = 0) =>
        /\ pushes = pops
        /\ stack_corrupt = entry.stack_corrupt
        /\ Len(goto_stack) = Len(entry.goto_stack)

\* C10: after bf_reset every cell is 0 and the cursor is 0; the tape keeps
\* its size.
C10_ResetZeroes ==
    last_op = "reset" =>
        /\ \A i \in DOMAIN mem : mem[i] = 0
        /\ ptr = 0
        /\ memsize = entry.memsize
        /\ DOMAIN mem = DOMAIN entry.mem
        /\ DOMAIN mem = 0..(memsize - 1)

C10_Witness ==
    /\ last_op = "reset"
    /\ entry.ptr # 0
    /\ \E i \in DOMAIN entry.mem : entry.mem[i] # 0

\* C11: a bf_malloc that succeeds, in whatever state it is called (cursor
\* not 0, old tape larger than the new one), leaves a tape of exactly
\* `size` cells, all 0, with the cursor at 0.
C11_MallocZeroesAndHomes ==
    last_op = "malloc" =>
        /\ DOMAIN mem = 0..(memsize - 1)
        /\ \A i \in DOMAIN mem : mem[i] = 0
        /\ ptr = 0

\* C12: a bf_malloc that fails on a store that held a tape leaves the store
\* as it was: the same cells, the same size and the same cursor, still
\* usable.
C12_FailedMallocKeepsStore ==
    (last_op = "malloc_failed" /\ entry.mem # NULL) =>
        /\ mem = entry.mem
        /\ memsize = entry.memsize
        /\ ptr = entry.ptr

\* C17: in the shell the commands q, h, l, x, d, w, n and any unknown
\* command leave every cell, the cursor and the size of the tape as they
\* were; of the shell's commands only r (bf_reset) changes them.
ShellCommands == { "shell_q", "shell_h", "shell_l", "shell_x", "shell_d",
                   "shell_w", "shell_n", "shell_unknown" }

C17_ShellCommandsKeepTape ==
    last_op \in ShellCommands =>
        /\ mem = entry.mem
        /\ ptr = entry.ptr
        /\ memsize = entry.memsize

C17_Witness ==
    /\ last_op = "shell_w"
    /\ memsize > 1
    /\ ptr # 0
    /\ \E i \in DOMAIN mem : mem[i] # 0
    /\ Len(shown) = 2 * SHELL_WINDOW_SIZE

\* C18: in a shell session the tape persists from one bf_execute to the
\* next: no step taken between two runs (a command other than r, the start
\* of a run, a rejected run) changes a cell, the cursor or the size; only
\* the r command does.
C18_TapePersists ==
    [][ (pc = "idle" /\ ~(last_op' = "reset" /\ pc' = "idle")) =>
            (mem' = mem /\ ptr' = ptr /\ memsize' = memsize) ]_vars

C18_Witness ==
    /\ last_op = "execute"
    /\ calls = 2
    /\ pc = "exec"
    /\ ~dispatched
    /\ ptr # 0
    /\ \E i \in DOMAIN mem : mem[i] # 0
    /\ mem = entry.mem
    /\ ptr = entry.ptr

\* the call being looked at started on the tape with a sound, empty stack
Running    == last_op = "execute" /\ pc \in {"exec", "idle"}
GoodEntry  == OnTapeEntry /\ CleanEntry
EntryCur   == entry.mem[entry.ptr]
EntryLeft  == LeftOf(entry.ptr, entry.memsize)
EntryRight == (entry.ptr + 1) % entry.memsize

\* C13: + and - change the cell under the pointer only, modulo 256: 255 + 1
\* is 0 and 0 - 1 is 255, "+-" and "-+" put the cell back, and as many
\* increments (decrements) of a cell as a cell has values put it back too.
\* RoundCount is the number of increments ">+[<+>+]<+" has made to its cell
\* so far, read off the counting neighbour.
RoundCount ==
    CASE pos <= 2         -> 0
      [] pos \in {3, 4}   -> mem[EntryRight] - 1
      [] pos \in {5, 6}   -> mem[EntryRight]
      [] pos = 7          -> Byte(mem[EntryRight] - 1)
      [] pos \in {8, 9}   -> CellRange - 1
      [] OTHER            -> CellRange

C13_CellArithmeticWraps ==
    (Running /\ GoodEntry) =>
        /\ code = ProgIncDec =>
              /\ ptr = entry.ptr
              /\ mem = [entry.mem EXCEPT ![entry.ptr] =
                           IF pos = 1 THEN (EntryCur + 1) % CellRange
                           ELSE EntryCur]
        /\ code = ProgDecInc =>
              /\ ptr = entry.ptr
              /\ mem = [entry.mem EXCEPT ![entry.ptr] =
                           IF pos = 1 THEN (EntryCur - 1) % CellRange
                           ELSE EntryCur]
        /\ (code \in {ProgIncRound, ProgDecRound} /\ entry.memsize >= 2
                /\ entry.mem[EntryRight] = 0) =>
              /\ mem[entry.ptr] =
                    (EntryCur + (IF code = ProgIncRound THEN RoundCount
                                 ELSE -RoundCount)) % CellRange
              /\ \A i \in DOMAIN mem :
                    i \notin {entry.ptr, EntryRight} => mem[i] = entry.mem[i]
              /\ pc = "idle" => (pos = Len(code) /\ mem = entry.mem
                                    /\ ptr = entry.ptr)

C13_Witness ==
    /\ Returned
    /\ code = ProgIncRound
    /\ GoodEntry
    /\ EntryCur = 3
    /\ entry.mem[EntryRight] = 0
    /\ pos = Len(code)
    /\ mem = entry.mem

\* C14: "++>+++++[<+>-]" on a zeroed tape of two cells or more, pointer 0,
\* ends: it returns 0 with cell 0 = 7, every other cell 0, the pointer at 1
\* and the stack empty.  A loop [<+>-] ends with the cell under the pointer
\* added (modulo 256) to its left neighbour and set to 0.
ScenarioEntry == ZeroedEntry /\ entry.ptr = 0 /\ entry.memsize >= 2 /\ CleanEntry
ScenarioFinal ==
    /\ result = 0
    /\ mem = [i \in DOMAIN entry.mem |-> IF i = 0 THEN 7 ELSE 0]
    /\ ptr = 1
    /\ goto_stack = << >>
    /\ ~stack_corrupt

AddLeftEntry == GoodEntry /\ entry.memsize >= 2
AddLeftFinal ==
    /\ result = 0
    /\ mem = [entry.mem EXCEPT ![EntryLeft] = (@ + EntryCur) % CellRange,
                               ![entry.ptr] = 0]
    /\ ptr = entry.ptr
    /\ goto_stack = << >>
    /\ ~stack_corrupt

C14_Finals ==
    /\ (Returned /\ code = ProgScenarioA /\ ScenarioEntry) => ScenarioFinal
    /\ (Returned /\ code = ProgAddLeft /\ AddLeftEntry) => AddLeftFinal

C14_Started ==
    /\ last_op = "execute"
    /\ \/ code = ProgScenarioA /\ ScenarioEntry
       \/ code = ProgAddLeft /\ AddLeftEntry

C14_ScenarioA ==
    /\ []C14_Finals
    /\ C14_Started ~> (pc = "idle")

C14_Witness ==
    /\ Returned
    /\ code = ProgScenarioA
    /\ ScenarioEntry
    /\ mem[0] = 7
    /\ mem[1] = 0
    /\ ptr = 1
    /\ pushes = 1
    /\ pops = 1

\* C15: ",." with a byte b, any of 0..255, next on standard input stores b
\* in the cell under the pointer and then writes exactly b; "." writes the
\* cell; writing changes neither the tape nor the pointer.
C15_EchoCopiesTheByte ==
    (Running /\ GoodEntry) =>
        /\ (code = ProgEcho /\ entry.stdin # << >>) =>
              /\ ptr = entry.ptr
              /\ mem = IF pos = 0 THEN entry.mem
                       ELSE [entry.mem EXCEPT ![entry.ptr] = Head(entry.stdin)]
              /\ out = IF pos = 2 THEN << Head(entry.stdin) >> ELSE << >>
              /\ stdin = IF pos = 0 THEN entry.stdin ELSE Tail(entry.stdin)
              /\ pc = "idle" => (result = 0 /\ pos = 2)
        /\ code = ProgPut =>
              /\ ptr = entry.ptr
              /\ mem = entry.mem
              /\ out = IF pos = 1 THEN << EntryCur >> ELSE << >>

C15_Witness ==
    /\ Returned
    /\ code = ProgEcho
    /\ entry.stdin = << 200 >>
    /\ EntryCur = 3
    /\ mem[ptr] = 200
    /\ out = << 200 >>

\* C16: a character that is none of the eight instructions changes nothing
\* but the position in the stream when it is dispatched, and the run goes
\* on; so a text of such characters leaves everything as it was, and
\* "++>+++++[<+>-]" and "[<+>-]" with such characters put in end as the
\* bare texts do.
Strip(c) == SelectSeq(c, LAMBDA ch : ch \in Commands)

C16_InertStep ==
    (pc = "exec" /\ Fetched # 0 /\ code[Fetched] \notin Commands) =>
        /\ pos' = Fetched
        /\ pc' = "exec"
        /\ stream_fail' = stream_fail
        /\ result' = result
        /\ out' = out
        /\ mem' = mem /\ memsize' = memsize /\ ptr' = ptr
        /\ goto_stack' = goto_stack /\ stack_corrupt' = stack_corrupt

C16_PaddedFinals ==
    Returned =>
        /\ Strip(code) = << >> =>
              /\ result = 0
              /\ out = << >>
              /\ mem = entry.mem /\ memsize = entry.memsize /\ ptr = entry.ptr
              /\ goto_stack = entry.goto_stack
              /\ stack_corrupt = entry.stack_corrupt
        /\ (Strip(code) = ProgScenarioA /\ ScenarioEntry) =>
              (ScenarioFinal /\ out = << >>)
        /\ (Strip(code) = ProgAddLeft /\ AddLeftEntry) =>
              (AddLeftFinal /\ out = << >>)

C16_InertCharacters ==
    /\ []C16_PaddedFinals
    /\ [][C16_InertStep]_vars

C16_Witness ==
    /\ Returned
    /\ code = ProgScenarioAPadded
    /\ ScenarioEntry
    /\ pos = Len(code)
    /\ mem[0] = 7
    /\ ptr = 1

\* C19: "+[]" on a zeroed tape does not return: once the loop-open has
\* pushed its position, the next character to dispatch is always the
\* loop-close, the cell is 1, the stack holds that one position, and the
\* loop-close seeks back to it.
C19_EmptyLoopNeverReturns ==
    (last_op = "execute" /\ code = ProgForever /\ ZeroedEntry /\ GoodEntry) =>
        /\ pc = "exec"
        /\ ~stream_fail
        /\ Fetched # 0
        /\ pos >= 2 =>
              /\ pos = 2
              /\ code[Fetched] = JMP_BCK
              /\ mem[ptr] = 1
              /\ goto_stack = << 2 >>
              /\ ~stack_corrupt
              /\ pushes = 1
              /\ pops = 0

C19_Witness ==
    /\ last_op = "execute"
    /\ code = ProgForever
    /\ ZeroedEntry
    /\ GoodEntry
    /\ pos = 2
    /\ goto_stack = << 2 >>
    /\ mem[ptr] = 1

\* C20: in a well-nested text, a loop-open dispatched on a cell that is 0
\* pushes nothing and leaves tape, pointer and output alone; the stream is
\* left just behind the loop-close that matches this loop-open, so the
\* body, with the loops nested in it, is skipped whole.
C20_SkipStep ==
    (pc = "exec" /\ Fetched # 0 /\ code[Fetched] = JMP_FWD /\ InBounds
        /\ mem[ptr] = 0 /\ WellNestedText(code)) =>
        /\ pos' = MatchingClose(code, Fetched)
        /\ pc' = "exec"
        /\ ~stream_fail'
        /\ pushes' = pushes
        /\ goto_stack' = goto_stack /\ stack_corrupt' = stack_corrupt
        /\ mem' = mem /\ ptr' = ptr /\ out' = out
        /\ ~ff_eof'

C20_ZeroCellSkipsLoop == [][C20_SkipStep]_vars

C20_Witness ==
    /\ last_op = "execute"
    /\ code = ProgSkip
    /\ pc = "exec"
    /\ pos = 6
    /\ pushes = 0
    /\ dispatched
    /\ mem = entry.mem
    /\ out = << >>

\* C21: in a well-nested text run from a sound, empty stack, whenever a
\* loop-close is dispatched the top of the stack is the position just
\* behind the loop-open that matches it.  On a nonzero cell the stack stays
\* as it is and the stream goes back there (the loop body comes next); on a
\* zero cell that one entry is popped and the run goes on behind the
\* loop-close.
AtLoopClose ==
    /\ last_op = "execute"
    /\ pc = "exec"
    /\ GoodEntry
    /\ WellNestedText(code)
    /\ Fetched # 0
    /\ code[Fetched] = JMP_BCK

C21_TopIsMatchingOpen ==
    AtLoopClose =>
        /\ InBounds
        /\ StackUsable
        /\ goto_stack[Len(goto_stack)] = MatchingOpen(code, Fetched)

C21_CloseStep ==
    AtLoopClose =>
        /\ pc' = "exec"
        /\ ~stream_fail'
        /\ mem' = mem /\ ptr' = ptr /\ out' = out
        /\ ~stack_corrupt'
        /\ mem[ptr] # 0 =>
              /\ goto_stack' = goto_stack
              /\ pos' = MatchingOpen(code, Fetched)
              /\ pops' = pops
        /\ mem[ptr] = 0 =>
              /\ goto_stack' = SubSeq(goto_stack, 1, Len(goto_stack) - 1)
              /\ pos' = Fetched
              /\ pops' = pops + 1

C21_LoopClose ==
    /\ []C21_TopIsMatchingOpen
    /\ [][C21_CloseStep]_vars

C21_Witness ==
    /\ last_op = "execute"
    /\ code = ProgNested
    /\ GoodEntry
    /\ pc = "exec"
    /\ pos = 5
    /\ pops = 1
    /\ goto_stack = << 2 >>
    /\ mem[ptr] = 0

\* C22: for every tape size and every pointer on the tape, the five
\* locations the w command hands to bf_value, bf_ptroffset(-2) to
\* bf_ptroffset(2), are cells of the tape.
C22_WindowOnTape ==
    (last_op = "shell_w" /\ ptr \in 0..(memsize - 1)) =>
        \A k \in (SHELL_WINDOW_SIZE + 1)..(2 * SHELL_WINDOW_SIZE) :
            0 <= shown[k] /\ shown[k] < memsize

\* C23: a , dispatched when standard input has ended stores 255 (EOF, -1,
\* cut to a byte) in the cell under the pointer, each time; no other cell
\* and not the pointer changes, and the run goes on with the next
\* instruction.  In ",+,." the second , is at the end of input whenever at
\* most one byte was there.
C23_EndOfInputStores255 ==
    (Running /\ GoodEntry) =>
        /\ (code = ProgEcho /\ entry.stdin = << >>) =>
              /\ ptr = entry.ptr
              /\ stdin = << >>
              /\ mem = IF pos = 0 THEN entry.mem
                       ELSE [entry.mem EXCEPT ![entry.ptr] = CellRange - 1]
              /\ out = IF pos = 2 THEN << CellRange - 1 >> ELSE << >>
              /\ pos < 2 => (pc = "exec" /\ Fetched = pos + 1)
        /\ (code = ProgReadTwice /\ Len(entry.stdin) <= 1) =>
              /\ ptr = entry.ptr
              /\ \A i \in DOMAIN mem : i # entry.ptr => mem[i] = entry.mem[i]
              /\ pos >= 3 => (stdin = << >> /\ mem[ptr] = CellRange - 1)
              /\ pos = 3 => (pc = "exec" /\ Fetched = 4)
              /\ pos = 4 => out = << CellRange - 1 >>
              /\ pc = "idle" => (result = 0 /\ pos = 4)

C23_Witness ==
    /\ Returned
    /\ code = ProgReadTwice
    /\ entry.stdin = << >>
    /\ EntryCur = 3
    /\ mem[ptr] = 255
    /\ out = << 255 >>

\* C24: in a run of a text that verify lets through, started with a sound,
\* empty stack, no loop-close is dispatched while the stack is empty:
\* top() and pop() always find an entry.
C24_CloseFindsAnEntry ==
    (last_op = "execute" /\ pc = "exec" /\ CleanEntry /\ verify(code) = 1
        /\ Fetched # 0 /\ code[Fetched] = JMP_BCK) =>
        (goto_stack # << >> /\ ~stack_corrupt)

\* C26: in a run of a well-nested text started with a sound, empty stack,
\* the stack holds, bottom to top, the positions of the loops that enclose
\* the character about to be dispatched, all of them entered on a nonzero
\* cell (a loop met on a zero cell is skipped whole): its depth is the
\* number of those loops, at most the deepest nesting of the text, on
\* every turn of every loop; at the end of the text it is empty.
EnclosingOpens(c, k) ==
    { i \in 1..(k - 1) : c[i] = JMP_FWD /\ MatchingClose(c, i) >= k }

MaxNesting(c) ==
    IF Len(c) = 0 THEN 0
    ELSE CHOOSE d \in 0..Len(c) :
            /\ \A k \in 1..Len(c) : Depth(c, k) <= d
            /\ \E k \in 1..Len(c) : Depth(c, k) = d \/ d = 0

C26_DepthIsEnclosingLoops ==
    (last_op = "execute" /\ GoodEntry /\ WellNestedText(code)) =>
        /\ pc \in {"exec", "idle"}
        /\ ~stack_corrupt
        /\ Len(goto_stack) <= MaxNesting(code)
        /\ Len(goto_stack) <= pushes
        /\ (pc = "exec" /\ Fetched # 0) =>
              /\ Len(goto_stack) = Cardinality(EnclosingOpens(code, Fetched))
              /\ { goto_stack[n] : n \in 1..Len(goto_stack) }
                    = EnclosingOpens(code, Fetched)
              /\ \A n \in 1..(Len(goto_stack) - 1) :
                    goto_stack[n] < goto_stack[n + 1]
        /\ (pc = "idle" \/ Fetched = 0) => goto_stack = << >>

C26_Witness ==
    /\ last_op = "execute"
    /\ code = ProgNested
    /\ GoodEntry
    /\ pc = "exec"
    /\ goto_stack = << 2, 3 >>
    /\ code[Fetched] = MEM_DEC

\* C25: on a well-nested text, from any tape, pointer and input, bf_execute
\* and the reference interpreter go step for step: before every dispatch
\* they hold the same tape, pointer, output and remaining input and are at
\* the same character.  bf_execute has come to the end of the text exactly
\* when the reference has halted, it then returns 0, and until then its
\* next step can be taken; so both end in the same tape, pointer and
\* output, or neither ends.
CanStep ==
    LET ch == code[Fetched] IN
    /\ InBounds
    /\ (ch = JMP_FWD /\ mem[ptr] # 0) => (pushes < MaxOps /\ ~stack_corrupt)
    /\ ch = JMP_BCK => (StackUsable /\ (mem[ptr] = 0 => pops < MaxOps))
    /\ ch = PUT_CHR => Len(out) < MaxOut
    /\ ch = PTR_INC => bf_ptroffset(1) <= MaxPtr

C25_AgreesWithReference ==
    (last_op = "execute" /\ GoodEntry /\ WellNestedText(code)) =>
        /\ ref.on
        /\ pc \in {"exec", "idle"}
        /\ ref.mem = mem
        /\ ref.ptr = ptr
        /\ ref.out = out
        /\ ref.stdin = stdin
        /\ (pc = "exec" /\ Fetched # 0) =>
              /\ ~RefHalted(code, ref)
              /\ ref.ip = Fetched
              /\ CanStep
        /\ (pc = "exec" /\ Fetched = 0) => RefHalted(code, ref)
        /\ pc = "idle" => (RefHalted(code, ref) /\ result = 0)

C25_Witness ==
    /\ Returned
    /\ code = ProgAddLeftPadded
    /\ AddLeftEntry
    /\ EntryCur = 3
    /\ entry.mem[EntryLeft] = 254
    /\ ref.on
    /\ ref.ip = Len(code) + 1
    /\ ref.mem = mem
    /\ mem[EntryLeft] = 1

=============================================================================
